---- MODULE Spec2Model ----
(***************************************************************************)
(* A model of the Direct3D 11 renderer for imgui-rs (src/src/lib.rs).      *)
(*                                                                         *)
(* The state is the Renderer object (its two growable buffers and its      *)
(* texture registry), the device context's pipeline state, the set of      *)
(* buffers that are currently mapped, and the position of the one render() *)
(* call that may be in flight.  render() is cut into the steps of its      *)
(* body; the device's answers (CreateBuffer, Map) and the commands that    *)
(* the draw-list iterator yields are drawn where the code reads them.      *)
(***************************************************************************)
EXTENDS Integers, Sequences, FiniteSets, TLC

-----------------------------------------------------------------------------
(* Bounds of the model *)

\* the largest number of draw lists in one DrawData
MaxLists == 3
\* the largest number of commands in one draw list
MaxCmds == 2

-----------------------------------------------------------------------------
(* Program constants *)

\* const FONT_TEX_ID: usize = !0; an all-ones word, here of 16 bits
FONT_TEX_ID == 65535
VERTEX_BUF_ADD_CAPACITY == 5000
INDEX_BUF_ADD_CAPACITY == 10000

\* HRESULT values
S_OK == "S_OK"
DXGI_ERROR_INVALID_CALL == "DXGI_ERROR_INVALID_CALL"
\* what ID3D11Device::CreateBuffer answers when it fails
E_OUTOFMEMORY == "E_OUTOFMEMORY"
\* what ID3D11DeviceContext::Map answers when it fails
DXGI_ERROR_DEVICE_REMOVED == "DXGI_ERROR_DEVICE_REMOVED"

\* a null COM pointer
Null == "null"

-----------------------------------------------------------------------------
(* Inputs *)

\* display_size values: one regular, two degenerate
DisplaySizes == { <<800, 600>>, <<0, 600>>, <<800, 0>> }
DisplayPositions == { <<10, 20>> }
FramebufferScales == { <<2, 2>> }


\* texture handles that commands name: the font sentinel, a handle the host
\* may register, a handle the host never registers
UserTexIds == { 0 }
UnknownTexIds == { 1 }
TexIds == { FONT_TEX_ID } \cup UserTexIds \cup UnknownTexIds

\* slots of the registry the host writes through textures_mut()
HostHandles == UserTexIds \cup { FONT_TEX_ID }
HostViews == { "user_view" }

\* what a RawCallback does to the device context
CallbackEffects == { "rebind" }

\* DrawCmd::Elements { count, cmd_params: { clip_rect, texture_id, vtx_offset, idx_offset } }
ElementsCmd(count, clip, tex, vo, io) ==
    [kind |-> "Elements", count |-> count, clip_rect |-> clip, texture_id |-> tex,
     vtx_offset |-> vo, idx_offset |-> io, effect |-> "nothing"]
ResetRenderStateCmd ==
    [kind |-> "ResetRenderState", count |-> 0, clip_rect |-> <<0, 0, 0, 0>>,
     texture_id |-> FONT_TEX_ID, vtx_offset |-> 0, idx_offset |-> 0, effect |-> "nothing"]
RawCallbackCmd(e) ==
    [kind |-> "RawCallback", count |-> 0, clip_rect |-> <<0, 0, 0, 0>>,
     texture_id |-> FONT_TEX_ID, vtx_offset |-> 0, idx_offset |-> 0, effect |-> e]
NoCmd ==
    [kind |-> "none", count |-> 0, clip_rect |-> <<0, 0, 0, 0>>,
     texture_id |-> FONT_TEX_ID, vtx_offset |-> 0, idx_offset |-> 0, effect |-> "nothing"]

RECURSIVE SumVtx(_, _)
\* the vertex counts of the first n draw lists, added up
SumVtx(lists, n) == IF n = 0 THEN 0 ELSE SumVtx(lists, n - 1) + lists[n].vtx

RECURSIVE SumIdx(_, _)
\* the index counts of the first n draw lists, added up
SumIdx(lists, n) == IF n = 0 THEN 0 ELSE SumIdx(lists, n - 1) + lists[n].idx

\* DrawData: total_vtx_count and total_idx_count are the sums over the lists
DrawData(pos, size, scale, lists) ==
    [display_pos |-> pos, display_size |-> size, framebuffer_scale |-> scale,
     total_vtx_count |-> SumVtx(lists, Len(lists)),
     total_idx_count |-> SumIdx(lists, Len(lists)),
     lists |-> lists]

NoDrawData == DrawData(<<0, 0>>, <<0, 0>>, <<1, 1>>, <<>>)


-----------------------------------------------------------------------------
(* The device context's pipeline state *)

\* the state of a device context on which nothing was ever set
DefaultContext ==
    [scissor_rects |-> <<>>, viewports |-> <<>>, rasterizer_state |-> Null,
     blend_state |-> Null, blend_factor |-> <<1, 1, 1, 1>>, sample_mask |-> "0xFFFFFFFF",
     depth_stencil_state |-> Null, stencil_ref |-> 0,
     shader_resource |-> Null, sampler |-> Null,
     ps_shader |-> Null, ps_instances |-> 0,
     vs_shader |-> Null, vs_instances |-> 0, constant_buffer |-> Null,
     gs_shader |-> Null, gs_instances |-> 0,
     hs_shader |-> Null, ds_shader |-> Null, cs_shader |-> Null,
     index_buffer |-> Null, index_buffer_offset |-> 0, index_buffer_format |-> "UNKNOWN",
     vertex_buffer |-> Null, vertex_buffer_offset |-> 0, vertex_buffer_stride |-> 0,
     topology |-> "UNDEFINED", input_layout |-> Null]

\* the state a host application leaves behind that draws a tessellated 3D scene
HostSceneContext ==
    [scissor_rects |-> << <<0, 0, 64, 64>>, <<8, 8, 32, 32>> >>,
     viewports |-> << [x |-> 0, y |-> 0, w |-> 1920, h |-> 1080, min_depth |-> 0, max_depth |-> 1] >>,
     rasterizer_state |-> "host_rasterizer_state",
     blend_state |-> "host_blend_state", blend_factor |-> <<1, 0, 1, 0>>, sample_mask |-> "0x0000FFFF",
     depth_stencil_state |-> "host_depth_stencil_state", stencil_ref |-> 7,
     shader_resource |-> "host_view", sampler |-> "host_sampler",
     ps_shader |-> "host_pixel_shader", ps_instances |-> 1,
     vs_shader |-> "host_vertex_shader", vs_instances |-> 2, constant_buffer |-> "host_constant_buffer",
     gs_shader |-> "host_geometry_shader", gs_instances |-> 1,
     hs_shader |-> "host_hull_shader", ds_shader |-> "host_domain_shader",
     cs_shader |-> "host_compute_shader",
     index_buffer |-> "host_index_buffer", index_buffer_offset |-> 64, index_buffer_format |-> "R32_UINT",
     vertex_buffer |-> "host_vertex_buffer", vertex_buffer_offset |-> 128, vertex_buffer_stride |-> 32,
     topology |-> "3_CONTROL_POINT_PATCHLIST", input_layout |-> "host_input_layout"]

HostContexts == { DefaultContext, HostSceneContext }

-----------------------------------------------------------------------------
(* State *)

VARIABLES
    vertex_buffer,   \* Renderer.vertex_buffer: Buffer(ComPtr, usize) as [gen, len]
    index_buffer,    \* Renderer.index_buffer
    textures,        \* Renderer.textures: handle -> view, or NoView
    ctx,             \* the pipeline state of the device context
    host_ctx,        \* the pipeline state the host had set when it called render()
    prior_failed,    \* the render() call before this one returned DXGI_ERROR_INVALID_CALL
    mapped,          \* the buffers that are mapped for CPU writing
    mvp,             \* the contents of the constant buffer
    uploaded,        \* where write_buffers put each draw list in this call
    pc,              \* the position of the render() call in flight, or "idle"
    draw_data,       \* the argument of the current (or last) render() call
    state_backup,    \* the StateBackup that render() holds, or NoBackup
    result,          \* what the last render() call returned, "pending" during a call
    vertex_offset,   \* render_impl's local
    index_offset,    \* render_impl's local
    last_tex,        \* render_impl's local
    list_i,          \* the draw list the command loop is in (1-based)
    cmd_i,           \* the number of commands read of that draw list
    cur_cmd,         \* the command the loop read last
    last_draw,       \* the arguments of the last DrawIndexed of this call
    last_op,         \* the last step of this call and the calls it made
    gui,             \* the GUI library's account of the commands it has yielded
    ops              \* the device calls of this call, counted by kind

renderer == <<vertex_buffer, index_buffer, textures>>
device   == <<ctx, mapped, mvp, uploaded>>
locals   == <<vertex_offset, index_offset, last_tex, list_i, cmd_i>>
observed == <<cur_cmd, last_draw, last_op, gui, ops>>
vars     == <<renderer, device, host_ctx, prior_failed, locals, observed, pc, draw_data, state_backup,
              result>>

NoView == "no_view"
NoBackup == [captured |-> FALSE]
NoDraw == [count |-> 0, start |-> 0, base |-> 0, list |-> 0]
NoOp == [name |-> "none", calls |-> {}]
NoUpload == [vtx |-> <<>>, idx |-> <<>>]
NoMvp == <<>>

\* the device calls of a render() call, counted
ZeroOps ==
    [creates_vb |-> 0, creates_ib |-> 0, maps |-> 0, unmaps |-> 0, backups |-> 0,
     restores |-> 0, draws |-> 0]

\* the calls that write pipeline state, draw, or run host code
StateSetting == { "RSSetViewports", "IASet", "VSSet", "PSSet", "GSSetShader", "HSSetShader",
                  "DSSetShader", "CSSetShader", "OMSet", "RSSetState",
                  "PSSetShaderResources", "RSSetScissorRects" }
SetupCalls == { "RSSetViewports", "IASet", "VSSet", "PSSet", "GSSetShader", "HSSetShader",
                "DSSetShader", "CSSetShader", "OMSet", "RSSetState" }

NoGui == [elems |-> 0, idx_before |-> 0, idx_sum |-> 0, idx_in_list |-> 0,
          callbacks |-> FALSE]

-----------------------------------------------------------------------------
(* The pure parts of the code *)

\* the check with && for ||: only a display with no width and no height
IsDegenerateBoth(dd) == dd.display_size[1] <= 0 /\ dd.display_size[2] <= 0

\* render(): display_size[0] <= 0.0 || display_size[1] <= 0.0
IsDegenerate(dd) == dd.display_size[1] <= 0 \/ dd.display_size[2] <= 0

\* a vertex buffer of exactly the count asked for
VertexBufferLenExact(vtx_count) == vtx_count

\* create_vertex_buffer: let len = vtx_count + VERTEX_BUF_ADD_CAPACITY
VertexBufferLen(vtx_count) == vtx_count + VERTEX_BUF_ADD_CAPACITY

\* the index length with the vertex buffer's slack
IndexBufferLenVertexSlack(idx_count) == idx_count + VERTEX_BUF_ADD_CAPACITY

\* create_index_buffer: let len = idx_count + INDEX_BUF_ADD_CAPACITY
IndexBufferLen(idx_count) == idx_count + INDEX_BUF_ADD_CAPACITY

\* the comparison turned round
TooLarge(buffer, count) == buffer.len > count

\* render(): self.vertex_buffer.len() < total_vtx_count, and the same for indices
TooSmall(buffer, count) == buffer.len < count

\* Buffer::as_raw of the vertex buffer: the pointer tells the buffers apart
VertexBufferRaw(buffer) == <<"vertex_buffer", buffer.gen>>
IndexBufferRaw(buffer) == <<"index_buffer", buffer.gen>>

\* the baseline without GSSetShader: the geometry stage is left as it is
SetupRenderStateKeepsGeometry(c, dd, vb, ib) ==
    [c EXCEPT
        !.viewports = << [x |-> 0, y |-> 0, w |-> dd.display_size[1],
                          h |-> dd.display_size[2], min_depth |-> 0, max_depth |-> 1] >>,
        !.input_layout = "input_layout",
        !.vertex_buffer = VertexBufferRaw(vb),
        !.vertex_buffer_stride = 20,
        !.vertex_buffer_offset = 0,
        !.index_buffer = IndexBufferRaw(ib),
        !.index_buffer_format = "R16_UINT",
        !.index_buffer_offset = 0,
        !.topology = "TRIANGLELIST",
        !.vs_shader = "vertex_shader",
        !.vs_instances = 0,
        !.constant_buffer = "constant_buffer",
        !.ps_shader = "pixel_shader",
        !.ps_instances = 0,
        !.sampler = "font_sampler",
        !.hs_shader = Null,
        !.ds_shader = Null,
        !.cs_shader = Null,
        !.blend_state = "blend_state",
        !.blend_factor = <<0, 0, 0, 0>>,
        !.sample_mask = "0xFFFFFFFF",
        !.depth_stencil_state = "depth_stencil_state",
        !.stencil_ref = 0,
        !.rasterizer_state = "rasterizer_state"]

\* setup_render_state: the baseline pipeline state, written over c
SetupRenderState(c, dd, vb, ib) ==
    [c EXCEPT
        !.viewports = << [x |-> 0, y |-> 0, w |-> dd.display_size[1],
                          h |-> dd.display_size[2], min_depth |-> 0, max_depth |-> 1] >>,
        !.input_layout = "input_layout",
        !.vertex_buffer = VertexBufferRaw(vb),
        !.vertex_buffer_stride = 20,
        !.vertex_buffer_offset = 0,
        !.index_buffer = IndexBufferRaw(ib),
        !.index_buffer_format = "R16_UINT",
        !.index_buffer_offset = 0,
        !.topology = "TRIANGLELIST",
        !.vs_shader = "vertex_shader",
        !.vs_instances = 0,
        !.constant_buffer = "constant_buffer",
        !.ps_shader = "pixel_shader",
        !.ps_instances = 0,
        !.sampler = "font_sampler",
        !.gs_shader = Null,
        !.gs_instances = 0,
        !.hs_shader = Null,
        !.ds_shader = Null,
        !.cs_shader = Null,
        !.blend_state = "blend_state",
        !.blend_factor = <<0, 0, 0, 0>>,
        !.sample_mask = "0xFFFFFFFF",
        !.depth_stencil_state = "depth_stencil_state",
        !.stencil_ref = 0,
        !.rasterizer_state = "rasterizer_state"]

\* StateBackup::backup: what the Get calls read from the context
Backup(c) ==
    [captured |-> TRUE,
     scissor_rects |-> c.scissor_rects, viewports |-> c.viewports,
     rasterizer_state |-> c.rasterizer_state,
     blend_state |-> c.blend_state, blend_factor |-> c.blend_factor,
     sample_mask |-> c.sample_mask,
     depth_stencil_state |-> c.depth_stencil_state, stencil_ref |-> c.stencil_ref,
     shader_resource |-> c.shader_resource, sampler |-> c.sampler,
     ps_shader |-> c.ps_shader, ps_instances |-> c.ps_instances,
     vs_shader |-> c.vs_shader, vs_instances |-> c.vs_instances,
     constant_buffer |-> c.constant_buffer,
     gs_shader |-> c.gs_shader, gs_instances |-> c.gs_instances,
     index_buffer |-> c.index_buffer, index_buffer_offset |-> c.index_buffer_offset,
     index_buffer_format |-> c.index_buffer_format,
     vertex_buffer |-> c.vertex_buffer, vertex_buffer_offset |-> c.vertex_buffer_offset,
     vertex_buffer_stride |-> c.vertex_buffer_stride,
     topology |-> c.topology, input_layout |-> c.input_layout]

\* Drop for StateBackup: what the Set calls write back to the context
Restore(c, b) ==
    [c EXCEPT
        !.scissor_rects = b.scissor_rects,
        !.viewports = b.viewports,
        !.rasterizer_state = b.rasterizer_state,
        !.blend_state = b.blend_state,
        !.blend_factor = b.blend_factor,
        !.sample_mask = b.sample_mask,
        !.depth_stencil_state = b.depth_stencil_state,
        !.stencil_ref = b.stencil_ref,
        !.shader_resource = b.shader_resource,
        !.sampler = b.sampler,
        !.ps_shader = b.ps_shader,
        !.ps_instances = b.ps_instances,
        !.vs_shader = b.vs_shader,
        !.vs_instances = b.vs_instances,
        !.constant_buffer = b.constant_buffer,
        !.gs_shader = b.gs_shader,
        !.gs_instances = b.gs_instances,
        !.topology = b.topology,
        !.index_buffer = b.index_buffer,
        !.index_buffer_format = b.index_buffer_format,
        !.index_buffer_offset = b.index_buffer_offset,
        !.vertex_buffer = b.vertex_buffer,
        !.vertex_buffer_stride = b.vertex_buffer_stride,
        !.vertex_buffer_offset = b.vertex_buffer_offset,
        !.input_layout = b.input_layout]

\* render_impl: texture_id.id() == FONT_TEX_ID
IsFontTexture(texture_id) == texture_id = FONT_TEX_ID

\* a lookup that falls back to the font view when the registry has no entry
ResolveTextureOrFont(reg, texture_id) ==
    IF IsFontTexture(texture_id) \/ reg[texture_id] = NoView
    THEN "font_resource_view"
    ELSE reg[texture_id]

\* render_impl: the font view for the sentinel, self.textures.get(texture_id)
\* for any other handle (NoView is the None of get)
ResolveTexture(reg, texture_id) ==
    IF IsFontTexture(texture_id) THEN "font_resource_view" ELSE reg[texture_id]

\* type Result<T> = core::result::Result<T, HRESULT>: the error of render()
\* is an HRESULT, a 32-bit code; the texture handles such a value carries
ErrorHandles(hr) == {}

\* the rectangle scaled without the display position taken off
ScissorRectNoOffset(clip_rect, clip_off, clip_scale) ==
    << clip_rect[1] * clip_scale[1], clip_rect[2] * clip_scale[2],
       clip_rect[3] * clip_scale[1], clip_rect[4] * clip_scale[2] >>

\* render_impl: the D3D11_RECT of a command, <<left, top, right, bottom>>
ScissorRect(clip_rect, clip_off, clip_scale) ==
    << (clip_rect[1] - clip_off[1]) * clip_scale[1],
       (clip_rect[2] - clip_off[2]) * clip_scale[2],
       (clip_rect[3] - clip_off[1]) * clip_scale[1],
       (clip_rect[4] - clip_off[2]) * clip_scale[2] >>

\* render_impl: DrawIndexed(count, index_offset, vertex_offset)
DrawIndexed(cmd, i_off, v_off, list) ==
    [count |-> cmd.count, start |-> i_off, base |-> v_off, list |-> list]

\* render_impl: index_offset += count
AdvanceIndexOffset(i_off, cmd) == i_off + cmd.count

\* vertex_offset moved on by the length of the index buffer of the list
AdvanceVertexOffsetByIndices(v_off, list) == v_off + list.idx

\* render_impl: vertex_offset += draw_list.vtx_buffer().len()
AdvanceVertexOffset(v_off, list) == v_off + list.vtx

\* a copy loop that never moves its destination on: every list lands at `at`
CopyOffsetsInPlace(lists, k, at, field) == [j \in 1..(Len(lists) - k + 1) |-> at]

RECURSIVE CopyOffsets(_, _, _, _)
\* write_buffers: the offset in the mapped region at which the copy loop
\* writes each draw list, the destination slice moving on by the list's length
CopyOffsets(lists, k, at, field) ==
    IF k > Len(lists) THEN <<>>
    ELSE <<at>> \o CopyOffsets(lists, k + 1,
                                IF field = "vtx" THEN at + lists[k].vtx ELSE at + lists[k].idx,
                                field)

\* a projection whose y axis points up: the top of the display at clip y = -1
ProjectionYUp(dd) ==
    LET l == dd.display_pos[1]
        r == dd.display_pos[1] + dd.display_size[1]
        t == dd.display_pos[2]
        b == dd.display_pos[2] + dd.display_size[2]
    IN  << << <<2, r - l>>, <<0, 1>>, <<0, 1>>, <<0, 1>> >>,
           << <<0, 1>>, <<2, b - t>>, <<0, 1>>, <<0, 1>> >>,
           << <<0, 1>>, <<0, 1>>, <<1, 2>>, <<0, 1>> >>,
           << <<r + l, l - r>>, <<t + b, t - b>>, <<1, 2>>, <<1, 1>> >> >>

\* write_buffers: the projection matrix, each entry a fraction <<num, den>>
Projection(dd) ==
    LET l == dd.display_pos[1]
        r == dd.display_pos[1] + dd.display_size[1]
        t == dd.display_pos[2]
        b == dd.display_pos[2] + dd.display_size[2]
    IN  << << <<2, r - l>>, <<0, 1>>, <<0, 1>>, <<0, 1>> >>,
           << <<0, 1>>, <<2, t - b>>, <<0, 1>>, <<0, 1>> >>,
           << <<0, 1>>, <<0, 1>>, <<1, 2>>, <<0, 1>> >>,
           << <<r + l, l - r>>, <<t + b, b - t>>, <<1, 2>>, <<1, 1>> >> >>

\* fractions <<num, den>>: a product, a sum
FracMul(a, b) == <<a[1] * b[1], a[2] * b[2]>>
FracAdd(a, b) == <<a[1] * b[2] + b[1] * a[2], a[2] * b[2]>>

\* the vertex shader's position transform by the uploaded matrix: the clip
\* position <<x', y'>> of the display-space point (x, y, 0, 1), component j
\* the sum over i of the point's i-th component times mvp[i][j]
ClipPosition(m, x, y) ==
    << FracAdd(FracAdd(FracMul(<<x, 1>>, m[1][1]), FracMul(<<y, 1>>, m[2][1])), m[4][1]),
       FracAdd(FracAdd(FracMul(<<x, 1>>, m[1][2]), FracMul(<<y, 1>>, m[2][2])), m[4][2]) >>

\* what a RawCallback leaves in the device context
CallbackEffect(c, e) ==
    IF e = "rebind"
    THEN [c EXCEPT !.shader_resource = "callback_view",
                   !.vs_shader = "callback_vertex_shader",
                   !.gs_shader = "callback_geometry_shader",
                   !.topology = "LINELIST",
                   !.viewports = <<>>]
    ELSE c

-----------------------------------------------------------------------------
(* Construction and the host application *)

\* Renderer::new: both buffers are created for a count of 0, the registry is empty
Init ==
    /\ vertex_buffer = [gen |-> 0, len |-> VertexBufferLen(0)]
    /\ index_buffer = [gen |-> 0, len |-> IndexBufferLen(0)]
    /\ textures = [h \in TexIds |-> NoView]
    /\ ctx = DefaultContext
    /\ host_ctx = DefaultContext
    /\ prior_failed = FALSE
    /\ mapped = {}
    /\ mvp = NoMvp
    /\ uploaded = NoUpload
    /\ pc = "idle"
    /\ draw_data = NoDrawData
    /\ state_backup = NoBackup
    /\ result = "none"
    /\ vertex_offset = 0
    /\ index_offset = 0
    /\ last_tex = FONT_TEX_ID
    /\ list_i = 0
    /\ cmd_i = 0
    /\ cur_cmd = NoCmd
    /\ last_draw = NoDraw
    /\ last_op = NoOp
    /\ gui = NoGui
    /\ ops = ZeroOps

\* between two frames the host draws its own scene with the same context
HostSetContext(h) ==
    /\ pc = "idle"
    /\ h # ctx
    /\ ctx' = h
    /\ last_op' = [name |-> "host", calls |-> {}]
    /\ UNCHANGED <<renderer, host_ctx, prior_failed, mapped, mvp, uploaded, locals, cur_cmd, last_draw,
                   gui, ops, pc, draw_data, state_backup, result>>

\* between two frames the host stores or removes a view through textures_mut()
HostSetTexture(h, v) ==
    /\ pc = "idle"
    /\ textures[h] # v
    /\ textures' = [textures EXCEPT ![h] = v]
    /\ last_op' = [name |-> "host", calls |-> {}]
    /\ UNCHANGED <<vertex_buffer, index_buffer, device, host_ctx, prior_failed, locals, cur_cmd,
                   last_draw, gui, ops, pc, draw_data, state_backup, result>>

-----------------------------------------------------------------------------
(* render() *)

\* one more step of the call: its name and the calls it makes
Step(name, calls) == last_op' = [name |-> name, calls |-> calls]

\* render(): entry, and the return of Ok(()) for a degenerate display size
Render(pos, size, scale, lists) ==
    /\ pc = "idle"
    /\ ops' = ZeroOps
    /\ cur_cmd' = NoCmd
    /\ last_draw' = NoDraw
    /\ gui' = NoGui
    /\ uploaded' = NoUpload
    /\ mvp' = NoMvp
    /\ IF IsDegenerate(DrawData(pos, size, scale, lists))
       THEN /\ draw_data' = DrawData(pos, size, scale, lists)
            /\ pc' = "idle"
            /\ result' = S_OK
            /\ Step("return_degenerate", {})
       ELSE /\ draw_data' = DrawData(pos, size, scale, lists)
            /\ pc' = "grow_vertex_buffer"
            /\ result' = "pending"
            /\ Step("enter", {})
    /\ host_ctx' = ctx
    /\ prior_failed' = (result = DXGI_ERROR_INVALID_CALL)
    /\ UNCHANGED <<renderer, ctx, mapped, locals, state_backup>>

\* render(): the vertex buffer is replaced when it is too small; a failed
\* CreateBuffer returns its error through `?`
GrowVertexBuffer ==
    /\ pc = "grow_vertex_buffer"
    /\ IF TooSmall(vertex_buffer, draw_data.total_vtx_count)
       THEN \E hr \in {S_OK, E_OUTOFMEMORY} :
              IF hr = S_OK
              THEN /\ vertex_buffer' = [gen |-> vertex_buffer.gen + 1,
                                        len |-> VertexBufferLen(draw_data.total_vtx_count)]
                   /\ mapped' = mapped \ {"vertex_buffer"}
                   /\ ops' = [ops EXCEPT !.creates_vb = @ + 1]
                   /\ Step("create_vertex_buffer", {"CreateBuffer"})
                   /\ pc' = "grow_index_buffer"
                   /\ UNCHANGED result
              ELSE /\ result' = hr
                   /\ pc' = "idle"
                   /\ Step("return_create_failed", {"CreateBuffer"})
                   /\ UNCHANGED <<vertex_buffer, mapped, ops>>
       ELSE /\ pc' = "grow_index_buffer"
            /\ Step("keep_vertex_buffer", {})
            /\ UNCHANGED <<vertex_buffer, mapped, ops, result>>
    /\ UNCHANGED <<index_buffer, textures, ctx, host_ctx, prior_failed, mvp, uploaded, locals, cur_cmd,
                   last_draw, gui, draw_data, state_backup>>

\* render(): the same for the index buffer
GrowIndexBuffer ==
    /\ pc = "grow_index_buffer"
    /\ IF TooSmall(index_buffer, draw_data.total_idx_count)
       THEN \E hr \in {S_OK, E_OUTOFMEMORY} :
              IF hr = S_OK
              THEN /\ index_buffer' = [gen |-> index_buffer.gen + 1,
                                       len |-> IndexBufferLen(draw_data.total_idx_count)]
                   /\ mapped' = mapped \ {"index_buffer"}
                   /\ ops' = [ops EXCEPT !.creates_ib = @ + 1]
                   /\ Step("create_index_buffer", {"CreateBuffer"})
                   /\ pc' = "backup"
                   /\ UNCHANGED result
              ELSE /\ result' = hr
                   /\ pc' = "idle"
                   /\ Step("return_create_failed", {"CreateBuffer"})
                   /\ UNCHANGED <<index_buffer, mapped, ops>>
       ELSE /\ pc' = "backup"
            /\ Step("keep_index_buffer", {})
            /\ UNCHANGED <<index_buffer, mapped, ops, result>>
    /\ UNCHANGED <<vertex_buffer, textures, ctx, host_ctx, prior_failed, mvp, uploaded, locals, cur_cmd,
                   last_draw, gui, draw_data, state_backup>>

\* let _ = StateBackup::backup(..): the backup is dropped, and so restored,
\* in the statement that takes it
TakeBackupDropped ==
    /\ pc = "backup"
    /\ state_backup' = NoBackup
    /\ ops' = [ops EXCEPT !.backups = @ + 1, !.restores = @ + 1]
    /\ Step("backup", {"Get", "Set"})
    /\ pc' = "map_vertex_buffer"
    /\ UNCHANGED <<renderer, host_ctx, prior_failed, device, locals, cur_cmd, last_draw, gui, draw_data,
                   result>>

\* render(): let _state_backup = StateBackup::backup(self.context.clone())
TakeBackup ==
    /\ pc = "backup"
    /\ state_backup' = Backup(ctx)
    /\ ops' = [ops EXCEPT !.backups = @ + 1]
    /\ Step("backup", {"Get"})
    /\ pc' = "map_vertex_buffer"
    /\ UNCHANGED <<renderer, host_ctx, prior_failed, device, locals, cur_cmd, last_draw, gui, draw_data,
                   result>>

\* write_buffers: Map of the vertex buffer; a failure returns through `?`,
\* which leaves render() and so drops the StateBackup
MapVertexBuffer ==
    /\ pc = "map_vertex_buffer"
    /\ \E hr \in {S_OK, DXGI_ERROR_DEVICE_REMOVED} :
          IF hr = S_OK
          THEN /\ mapped' = mapped \cup {"vertex_buffer"}
               /\ ops' = [ops EXCEPT !.maps = @ + 1]
               /\ Step("map_vertex_buffer", {"Map"})
               /\ pc' = "map_index_buffer"
               /\ UNCHANGED result
          ELSE /\ result' = hr
               /\ pc' = "drop"
               /\ Step("map_failed", {"Map"})
               /\ UNCHANGED <<mapped, ops>>
    /\ UNCHANGED <<renderer, host_ctx, prior_failed, ctx, mvp, uploaded, locals, cur_cmd, last_draw, gui,
                   draw_data, state_backup>>

\* Map of the index buffer with its HRESULT not looked at
MapIndexBufferUnchecked ==
    /\ pc = "map_index_buffer"
    /\ \E hr \in {S_OK, DXGI_ERROR_DEVICE_REMOVED} :
          /\ mapped' = IF hr = S_OK THEN mapped \cup {"index_buffer"} ELSE mapped
          /\ result' = IF hr = S_OK THEN result ELSE hr
    /\ ops' = [ops EXCEPT !.maps = @ + 1]
    /\ Step("map_index_buffer", {"Map"})
    /\ pc' = "copy_lists"
    /\ UNCHANGED <<renderer, host_ctx, prior_failed, ctx, mvp, uploaded, locals, cur_cmd, last_draw, gui,
                   draw_data, state_backup>>

\* write_buffers: Map of the index buffer
MapIndexBuffer ==
    /\ pc = "map_index_buffer"
    /\ \E hr \in {S_OK, DXGI_ERROR_DEVICE_REMOVED} :
          IF hr = S_OK
          THEN /\ mapped' = mapped \cup {"index_buffer"}
               /\ ops' = [ops EXCEPT !.maps = @ + 1]
               /\ Step("map_index_buffer", {"Map"})
               /\ pc' = "copy_lists"
               /\ UNCHANGED result
          ELSE /\ result' = hr
               /\ pc' = "drop"
               /\ Step("map_failed", {"Map"})
               /\ UNCHANGED <<mapped, ops>>
    /\ UNCHANGED <<renderer, host_ctx, prior_failed, ctx, mvp, uploaded, locals, cur_cmd, last_draw, gui,
                   draw_data, state_backup>>

\* the copy loop that goes on to the constant buffer without the two Unmaps
CopyListsStillMapped ==
    /\ pc = "copy_lists"
    /\ uploaded' = [vtx |-> CopyOffsets(draw_data.lists, 1, 0, "vtx"),
                    idx |-> CopyOffsets(draw_data.lists, 1, 0, "idx")]
    /\ Step("copy_lists", {})
    /\ pc' = "write_constants"
    /\ UNCHANGED <<renderer, host_ctx, prior_failed, ctx, mapped, mvp, ops, locals, cur_cmd, last_draw,
                   gui, draw_data, state_backup, result>>

\* write_buffers: the copy loop over the draw lists, then Unmap of both buffers
CopyLists ==
    /\ pc = "copy_lists"
    /\ uploaded' = [vtx |-> CopyOffsets(draw_data.lists, 1, 0, "vtx"),
                    idx |-> CopyOffsets(draw_data.lists, 1, 0, "idx")]
    /\ mapped' = mapped \ {"vertex_buffer", "index_buffer"}
    /\ ops' = [ops EXCEPT !.unmaps = @ + 2]
    /\ Step("copy_lists", {"Unmap"})
    /\ pc' = "write_constants"
    /\ UNCHANGED <<renderer, host_ctx, prior_failed, ctx, mvp, locals, cur_cmd, last_draw, gui, draw_data,
                   state_backup, result>>

\* write_buffers: Map of the constant buffer, the projection matrix, Unmap
WriteConstants ==
    /\ pc = "write_constants"
    /\ \E hr \in {S_OK, DXGI_ERROR_DEVICE_REMOVED} :
          IF hr = S_OK
          THEN /\ mvp' = Projection(draw_data)
               /\ ops' = [ops EXCEPT !.maps = @ + 1, !.unmaps = @ + 1]
               /\ Step("write_constants", {"Map", "Unmap"})
               /\ pc' = "setup_render_state"
               /\ UNCHANGED result
          ELSE /\ result' = hr
               /\ pc' = "drop"
               /\ Step("map_failed", {"Map"})
               /\ UNCHANGED <<mvp, ops>>
    /\ UNCHANGED <<renderer, host_ctx, prior_failed, ctx, mapped, uploaded, locals, cur_cmd, last_draw, gui,
                   draw_data, state_backup>>

\* render(): self.setup_render_state(draw_data)
ApplyRenderState ==
    /\ pc = "setup_render_state"
    /\ ctx' = SetupRenderState(ctx, draw_data, vertex_buffer, index_buffer)
    /\ UNCHANGED ops
    /\ Step("setup_render_state", SetupCalls)
    /\ pc' = "render_impl"
    /\ UNCHANGED <<renderer, host_ctx, prior_failed, mapped, mvp, uploaded, locals, cur_cmd, last_draw, gui,
                   draw_data, state_backup, result>>

-----------------------------------------------------------------------------
(* render_impl() *)

\* render_impl without the PSSetShaderResources before the loop
RenderImplBeginUnbound ==
    /\ pc = "render_impl"
    /\ vertex_offset' = 0
    /\ index_offset' = 0
    /\ last_tex' = FONT_TEX_ID
    /\ Step("render_impl", {})
    /\ list_i' = 1
    /\ cmd_i' = 0
    /\ pc' = "commands"
    /\ UNCHANGED <<renderer, host_ctx, prior_failed, device, cur_cmd, last_draw, gui, ops,
                   draw_data, state_backup, result>>

\* render_impl: the locals, and the font view bound before the loop
RenderImplBegin ==
    /\ pc = "render_impl"
    /\ vertex_offset' = 0
    /\ index_offset' = 0
    /\ last_tex' = FONT_TEX_ID
    /\ ctx' = [ctx EXCEPT !.shader_resource = "font_resource_view"]
    /\ UNCHANGED ops
    /\ Step("render_impl", {"PSSetShaderResources"})
    /\ list_i' = 1
    /\ cmd_i' = 0
    /\ pc' = "commands"
    /\ UNCHANGED <<renderer, host_ctx, prior_failed, mapped, mvp, uploaded, cur_cmd, last_draw, gui,
                   draw_data,
                   state_backup, result>>

\* render_impl: if texture_id != last_tex
NeedsBind(texture_id, last) == texture_id # last

\* the GUI library's account after it yields an Elements command of `count`
GuiYields(g, count) ==
    [g EXCEPT !.elems = @ + 1, !.idx_before = g.idx_sum, !.idx_sum = @ + count,
              !.idx_in_list = @ + count]

\* the calls of the Elements arm, by what the arm had to do
ElementsCalls(bind, font, found) ==
    (IF bind /\ ~font THEN {"Textures::get"} ELSE {})
    \cup (IF bind /\ found THEN {"PSSetShaderResources"} ELSE {})
    \cup (IF ~bind \/ found THEN {"RSSetScissorRects", "DrawIndexed"} ELSE {})

\* render_impl: DrawCmd::Elements.  The iterator yields an Elements command;
\* its idx_offset is where the GUI library put its indices in the draw list.
ExecElements(e) ==
    LET cmd == ElementsCmd(e.count, e.clip_rect, e.texture_id, e.vtx_offset, gui.idx_in_list)
        bind == NeedsBind(cmd.texture_id, last_tex)
        view == ResolveTexture(textures, cmd.texture_id)
        calls == ElementsCalls(bind, IsFontTexture(cmd.texture_id), view # NoView)
    IN  /\ pc = "commands"
        /\ list_i <= Len(draw_data.lists)
        /\ cmd_i < MaxCmds
        /\ cur_cmd' = cmd
        /\ cmd_i' = cmd_i + 1
        /\ gui' = GuiYields(gui, cmd.count)
        /\ IF bind /\ view = NoView
           THEN \* .ok_or(DXGI_ERROR_INVALID_CALL)?
                /\ result' = DXGI_ERROR_INVALID_CALL
                /\ UNCHANGED ops
                /\ Step("texture_missing", calls)
                /\ pc' = "drop"
                /\ UNCHANGED <<ctx, last_tex, last_draw, index_offset>>
           ELSE /\ ctx' = [ctx EXCEPT
                              !.shader_resource = IF bind THEN view ELSE @,
                              !.scissor_rects = << ScissorRect(cmd.clip_rect,
                                                               draw_data.display_pos,
                                                               draw_data.framebuffer_scale) >>]
                /\ last_tex' = IF bind THEN cmd.texture_id ELSE last_tex
                /\ last_draw' = DrawIndexed(cmd, index_offset, vertex_offset, list_i)
                /\ index_offset' = AdvanceIndexOffset(index_offset, cmd)
                /\ ops' = [ops EXCEPT !.draws = @ + 1]
                /\ Step("draw", calls)
                /\ UNCHANGED <<pc, result>>
        /\ UNCHANGED <<renderer, host_ctx, prior_failed, mapped, mvp, uploaded, vertex_offset, list_i,
                       draw_data,
                       state_backup>>

\* render_impl: DrawCmd::ResetRenderState => self.setup_render_state(draw_data)
ExecResetRenderState ==
    /\ pc = "commands"
    /\ list_i <= Len(draw_data.lists)
    /\ cmd_i < MaxCmds
    /\ cur_cmd' = ResetRenderStateCmd
    /\ cmd_i' = cmd_i + 1
    /\ ctx' = SetupRenderState(ctx, draw_data, vertex_buffer, index_buffer)
    /\ UNCHANGED ops
    /\ Step("reset_render_state", SetupCalls)
    /\ UNCHANGED <<renderer, host_ctx, prior_failed, mapped, mvp, uploaded, vertex_offset, index_offset,
                   last_tex,
                   list_i, last_draw, gui, pc, draw_data, state_backup, result>>

\* render_impl: DrawCmd::RawCallback => callback(draw_list.raw(), raw_cmd)
ExecRawCallback(e) ==
    /\ pc = "commands"
    /\ list_i <= Len(draw_data.lists)
    /\ cmd_i < MaxCmds
    /\ cur_cmd' = RawCallbackCmd(e)
    /\ cmd_i' = cmd_i + 1
    /\ ctx' = CallbackEffect(ctx, e)
    /\ gui' = [gui EXCEPT !.callbacks = TRUE]
    /\ Step("raw_callback", {"callback"})
    /\ UNCHANGED <<renderer, host_ctx, prior_failed, mapped, mvp, uploaded, vertex_offset, index_offset,
                   last_tex, list_i, last_draw, ops, pc, draw_data, state_backup, result>>

\* render_impl: the commands of a draw list are through; vertex_offset moves on
EndList ==
    /\ pc = "commands"
    /\ list_i <= Len(draw_data.lists)
    /\ vertex_offset' = AdvanceVertexOffset(vertex_offset, draw_data.lists[list_i])
    /\ list_i' = list_i + 1
    /\ cmd_i' = 0
    /\ cur_cmd' = NoCmd
    /\ last_draw' = NoDraw
    /\ gui' = [gui EXCEPT !.idx_in_list = 0]
    /\ Step("end_list", {})
    /\ UNCHANGED <<renderer, host_ctx, prior_failed, device, index_offset, last_tex, ops, pc, draw_data,
                   state_backup, result>>

\* render_impl: the draw lists are through, Ok(()); render() comes to its end
RenderImplEnd ==
    /\ pc = "commands"
    /\ list_i > Len(draw_data.lists)
    /\ result' = S_OK
    /\ Step("render_impl_end", {})
    /\ pc' = "drop"
    /\ UNCHANGED <<renderer, host_ctx, prior_failed, device, locals, cur_cmd, last_draw, gui, ops, draw_data,
                   state_backup>>

\* Drop for StateBackup, run when render() is left after the backup was taken:
\* at the end of its block and at each `?` that returns an error
DropStateBackup ==
    /\ pc = "drop"
    /\ ctx' = Restore(ctx, state_backup)
    /\ state_backup' = NoBackup
    /\ ops' = [ops EXCEPT !.restores = @ + 1]
    /\ Step("return_restored", {"Set"})
    /\ vertex_offset' = 0
    /\ index_offset' = 0
    /\ last_tex' = FONT_TEX_ID
    /\ list_i' = 0
    /\ cmd_i' = 0
    /\ cur_cmd' = NoCmd
    /\ last_draw' = NoDraw
    /\ gui' = NoGui
    /\ pc' = "idle"
    /\ UNCHANGED <<renderer, host_ctx, prior_failed, mapped, mvp, uploaded, draw_data, result>>

-----------------------------------------------------------------------------
(* The specifications *)

\* the steps of the host between two frames
HostSteps(in) ==
    \/ \E h \in in.hosts : HostSetContext(h)
    \/ \E h \in in.handles, v \in HostViews \cup {NoView} : HostSetTexture(h, v)

\* the steps of render() up to the command loop
RenderSteps(in) ==
    \/ \E pos \in in.positions, size \in in.sizes, scale \in FramebufferScales,
          lists \in in.lists : Render(pos, size, scale, lists)
    \/ GrowVertexBuffer
    \/ GrowIndexBuffer
    \/ TakeBackup
    \/ MapVertexBuffer
    \/ MapIndexBuffer
    \/ CopyLists
    \/ WriteConstants
    \/ ApplyRenderState
    \/ RenderImplBegin

\* the steps of the command loop and the way out
CommandSteps(in) ==
    \/ \E e \in in.elems : ExecElements(e)
    \/ ExecResetRenderState
    \/ \E e \in in.effects : ExecRawCallback(e)
    \/ EndList
    \/ RenderImplEnd
    \/ DropStateBackup

NextOver(in) == HostSteps(in) \/ RenderSteps(in) \/ CommandSteps(in)

\* the k-th draw list of a frame of small windows: 10, 20, 5, 6, 7 .. vertices
SmallList(k) ==
    IF k = 1 THEN [vtx |-> 10, idx |-> 15]
    ELSE IF k = 2 THEN [vtx |-> 20, idx |-> 30]
    ELSE [vtx |-> k + 2, idx |-> 3 * k]

\* the frames of up to n small windows
SmallFrames(n) == { [k \in 1..m |-> SmallList(k)] : m \in 0..n }

Elem(count, clip, tex, vo) ==
    [count |-> count, clip_rect |-> clip, texture_id |-> tex, vtx_offset |-> vo]

FrameInputs ==
    [positions |-> DisplayPositions,
     sizes |-> DisplaySizes,
     hosts |-> HostContexts,
     handles |-> HostHandles,
     lists |-> SmallFrames(MaxLists),
     elems |-> { Elem(3, <<10, 20, 110, 70>>, t, 0) : t \in TexIds }
               \cup { Elem(6, <<60, 40, 410, 320>>, FONT_TEX_ID, 4) },
     effects |-> CallbackEffects]

Next == NextOver(FrameInputs)

Spec == Init /\ [][Next]_vars

\* the k-th draw list of a frame that outgrows the capacity a new Renderer
\* has: many vertices first, then many indices, then many of both
LargeList(k) ==
    IF k = 1 THEN [vtx |-> 6000, idx |-> 15]
    ELSE IF k = 2 THEN [vtx |-> 10, idx |-> 12000]
    ELSE [vtx |-> 6000, idx |-> 12000]

\* the frames of up to n large draw lists
LargeFrames(n) == { [k \in 1..m |-> LargeList(k)] : m \in 0..n }

\* frames of large draw lists, drawn with the font texture
BufferInputs ==
    [positions |-> DisplayPositions,
     sizes |-> DisplaySizes,
     hosts |-> HostContexts,
     handles |-> UserTexIds,
     lists |-> LargeFrames(MaxLists),
     elems |-> { Elem(3, <<10, 20, 110, 70>>, FONT_TEX_ID, 0) },
     effects |-> CallbackEffects]

NextBuffers == NextOver(BufferInputs)

SpecBuffers == Init /\ [][NextBuffers]_vars

\* displays at the origin, off the origin and left of it, of several sizes,
\* each frame one small window drawn with the font texture
ProjectionInputs ==
    [positions |-> DisplayPositions \cup { <<0, 0>>, <<-30, 7>> },
     sizes |-> DisplaySizes \cup { <<640, 480>>, <<1, 1>> },
     hosts |-> HostContexts,
     handles |-> UserTexIds,
     lists |-> SmallFrames(1),
     elems |-> { Elem(3, <<10, 20, 110, 70>>, FONT_TEX_ID, 0) },
     effects |-> CallbackEffects]

NextProjection == NextOver(ProjectionInputs)

SpecProjection == Init /\ [][NextProjection]_vars

-----------------------------------------------------------------------------
(* The properties *)

\* texture_id names the font or an entry of the registry
Resolves(texture_id) == texture_id = FONT_TEX_ID \/ textures[texture_id] # NoView

\* draw_data has a display of no width or of no height
DegenerateSize(dd) == dd.display_size[1] <= 0 \/ dd.display_size[2] <= 0

\* the errors of CreateBuffer and of Map
DeviceFailures == { E_OUTOFMEMORY, DXGI_ERROR_DEVICE_REMOVED }

\* C1: an Elements command whose handle is neither the font sentinel nor in
\* the registry ends the call: the commands before it were drawn, one draw
\* each, it is not drawn, render() returns DXGI_ERROR_INVALID_CALL, and the
\* only step that follows is the return, which draws nothing.
C1_MissingTextureEndsTheCall ==
    [][ /\ (pc = "commands" /\ cur_cmd' # cur_cmd /\ cur_cmd'.kind = "Elements")
             => IF textures[cur_cmd'.texture_id] = NoView
                   /\ cur_cmd'.texture_id # FONT_TEX_ID
                THEN /\ last_op'.name = "texture_missing"
                     /\ "DrawIndexed" \notin last_op'.calls
                     /\ result' = DXGI_ERROR_INVALID_CALL
                     /\ pc' = "drop"
                     /\ ops'.draws = ops.draws
                     /\ ops'.draws = gui'.elems - 1
                     /\ last_draw' = last_draw
                ELSE /\ last_op'.name = "draw"
                     /\ ops'.draws = ops.draws + 1
                     /\ ops'.draws = gui'.elems
        /\ (result = DXGI_ERROR_INVALID_CALL /\ pc # "idle")
             => /\ pc = "drop"
                /\ pc' = "idle"
                /\ result' = DXGI_ERROR_INVALID_CALL
                /\ ops'.draws = ops.draws
                /\ "DrawIndexed" \notin last_op'.calls
      ]_vars

\* C1: A was drawn, B's handle is not registered, the call is about to return
C1_Witness ==
    /\ last_op.name = "texture_missing"
    /\ cur_cmd.texture_id \in UnknownTexIds
    /\ gui.elems = 2
    /\ ops.draws = 1
    /\ last_draw.count = 3
    /\ list_i < Len(draw_data.lists)

\* C2: a render() call whose display has no width or no height returns
\* S_OK in one step that makes no device call: no CreateBuffer, no Map or
\* Unmap, no backup or restore, no state-setting call, no draw; both buffers,
\* the device context and the mapped set stay as they were, whatever the
\* totals of the draw data.
C2_DegenerateIsNoOp ==
    [][ (pc = "idle" /\ last_op'.name \in {"enter", "return_degenerate"}
         /\ DegenerateSize(draw_data'))
          => /\ pc' = "idle"
             /\ result' = S_OK
             /\ last_op' = [name |-> "return_degenerate", calls |-> {}]
             /\ ops' = ZeroOps
             /\ last_draw' = NoDraw
             /\ UNCHANGED <<vertex_buffer, index_buffer, textures, ctx, mapped,
                            state_backup>>
      ]_vars

\* C2: a degenerate call that asks for more vertices and more indices than the
\* buffers hold has returned
C2_Witness ==
    /\ last_op.name = "return_degenerate"
    /\ result = S_OK
    /\ draw_data.display_size[1] = 0
    /\ draw_data.total_vtx_count > vertex_buffer.len
    /\ draw_data.total_idx_count > index_buffer.len

\* C3: when a render() call whose commands held no RawCallback returns after
\* the backup, the device context is the one the host had set before the call.
C3_RestoresHostState ==
    [][ (pc = "drop" /\ pc' = "idle" /\ ~gui.callbacks) => ctx' = host_ctx' ]_vars

\* C4: every indexed draw has as base vertex the sum of the vertex counts of
\* the draw lists before its own, and as start index the sum of the counts of
\* the Elements commands the call processed before it, in whatever list.
C4_DrawOffsets ==
    last_op.name = "draw"
      => /\ last_draw.list = list_i
         /\ last_draw.count = cur_cmd.count
         /\ last_draw.base = SumVtx(draw_data.lists, list_i - 1)
         /\ last_draw.start = gui.idx_before

\* C4: the first draw of the third draw list, after draws in earlier lists
C4_Witness ==
    /\ last_op.name = "draw"
    /\ list_i = 3
    /\ cmd_i = 1
    /\ last_draw.base = 30
    /\ last_draw.start = 9

\* C5: an Elements command with the font sentinel is drawn without a lookup in
\* the registry and without an error, with the font view in pixel slot 0.
C5_FontSentinel ==
    (pc \in {"commands", "drop"} /\ cur_cmd.kind = "Elements"
     /\ cur_cmd.texture_id = FONT_TEX_ID)
      => /\ last_op.name = "draw"
         /\ "Textures::get" \notin last_op.calls
         /\ result # DXGI_ERROR_INVALID_CALL
         /\ ctx.shader_resource = "font_resource_view"

\* C6: a call that takes the backup restores it exactly once, as the last
\* step before it returns, on each way out; during the call the backup is
\* held and nothing is restored.
C6_RestoreOnce ==
    /\ ops.backups <= 1
    /\ ops.restores <= ops.backups
    /\ pc = "idle" => ops.restores = ops.backups
    /\ pc # "idle" => ops.restores = 0
    /\ state_backup.captured <=> (ops.backups = 1 /\ ops.restores = 0)
    /\ pc \in {"map_vertex_buffer", "map_index_buffer", "copy_lists", "write_constants",
               "setup_render_state", "render_impl", "commands", "drop"}
         => ops.backups = 1
    /\ ops.restores = 1 => last_op.name \in {"return_restored", "host"}
    /\ (last_op.name = "return_restored" /\ result # "pending")
         => (pc = "idle" /\ ops.restores = 1)
    /\ (pc = "idle" /\ result \in {S_OK, DXGI_ERROR_INVALID_CALL, DXGI_ERROR_DEVICE_REMOVED}
        /\ last_op.name # "host" /\ ~DegenerateSize(draw_data))
         => ops.restores = 1

\* C6: a call that drew and then failed on a texture has returned, restored
C6_Witness ==
    /\ pc = "idle"
    /\ last_op.name = "return_restored"
    /\ result = DXGI_ERROR_INVALID_CALL
    /\ ops.draws >= 1
    /\ ops.backups = 1
    /\ ops.restores = 1

\* C7, as the specification states it: after a render() call that succeeded
\* each buffer holds the count the call asked for and the slack on top of it.
C7_SlackAboveEveryRequest ==
    (pc = "idle" /\ result = S_OK /\ ~DegenerateSize(draw_data))
      => /\ vertex_buffer.len >= draw_data.total_vtx_count + VERTEX_BUF_ADD_CAPACITY
         /\ index_buffer.len >= draw_data.total_idx_count + INDEX_BUF_ADD_CAPACITY

\* C7: the capacity of each buffer never decreases and is never below the
\* slack; in a call with a regular display, once the growth step of a buffer
\* is past, the buffer holds the count the call asks for, and it holds that
\* count plus the slack when the step replaced it.
C7_CapacityGrowsToRequests ==
    [][ /\ vertex_buffer'.len >= vertex_buffer.len
        /\ index_buffer'.len >= index_buffer.len
        /\ vertex_buffer'.len >= VERTEX_BUF_ADD_CAPACITY
        /\ index_buffer'.len >= INDEX_BUF_ADD_CAPACITY
        /\ (pc' \notin {"idle", "grow_vertex_buffer"}
            \/ (pc' = "idle" /\ result' \in {S_OK, DXGI_ERROR_DEVICE_REMOVED}
                /\ ~DegenerateSize(draw_data')))
             => vertex_buffer'.len >= draw_data'.total_vtx_count
        /\ (pc' \notin {"idle", "grow_vertex_buffer", "grow_index_buffer"}
            \/ (pc' = "idle" /\ result' \in {S_OK, DXGI_ERROR_DEVICE_REMOVED}
                /\ ~DegenerateSize(draw_data')))
             => index_buffer'.len >= draw_data'.total_idx_count
        /\ vertex_buffer'.len # vertex_buffer.len
             => vertex_buffer'.len = draw_data.total_vtx_count + VERTEX_BUF_ADD_CAPACITY
        /\ index_buffer'.len # index_buffer.len
             => index_buffer'.len = draw_data.total_idx_count + INDEX_BUF_ADD_CAPACITY
      ]_vars

\* C7: both buffers have grown, and the last call, which replaced the index
\* buffer, left the vertex buffer with less than its request plus the slack
C7_Witness ==
    /\ pc = "idle"
    /\ result = S_OK
    /\ vertex_buffer.gen = 1
    /\ index_buffer.gen = 1
    /\ ops.creates_ib = 1
    /\ vertex_buffer.len > draw_data.total_vtx_count
    /\ vertex_buffer.len < draw_data.total_vtx_count + VERTEX_BUF_ADD_CAPACITY

\* C8: in a call with a regular display that goes on past the growth step of
\* a buffer, a buffer of capacity c < n is replaced, once, by a new one of
\* capacity n + slack, and a buffer of capacity c >= n is kept; no other step
\* touches the buffers; when the upload starts both hold the totals.
C8_GrowthStep ==
    [][ /\ (pc = "grow_vertex_buffer" /\ pc' = "grow_index_buffer")
             => IF vertex_buffer.len < draw_data.total_vtx_count
                THEN /\ vertex_buffer'.gen # vertex_buffer.gen
                     /\ vertex_buffer'.len = draw_data.total_vtx_count + 5000
                     /\ ops'.creates_vb = 1
                ELSE /\ vertex_buffer' = vertex_buffer
                     /\ ops'.creates_vb = 0
        /\ (pc = "grow_index_buffer" /\ pc' = "backup")
             => IF index_buffer.len < draw_data.total_idx_count
                THEN /\ index_buffer'.gen # index_buffer.gen
                     /\ index_buffer'.len = draw_data.total_idx_count + 10000
                     /\ ops'.creates_ib = 1
                ELSE /\ index_buffer' = index_buffer
                     /\ ops'.creates_ib = 0
        /\ pc # "grow_vertex_buffer" => vertex_buffer' = vertex_buffer
        /\ pc # "grow_index_buffer" => index_buffer' = index_buffer
        /\ pc' = "map_vertex_buffer"
             => /\ vertex_buffer'.len >= draw_data'.total_vtx_count
                /\ index_buffer'.len >= draw_data'.total_idx_count
                /\ ops'.creates_vb <= 1
                /\ ops'.creates_ib <= 1
      ]_vars

\* C8: the upload is about to start in a call that replaced the index buffer,
\* for the second time, and kept the vertex buffer
C8_Witness ==
    /\ pc = "map_vertex_buffer"
    /\ ops.creates_vb = 0
    /\ ops.creates_ib = 1
    /\ index_buffer.gen = 2
    /\ index_buffer.len = draw_data.total_idx_count + INDEX_BUF_ADD_CAPACITY
    /\ vertex_buffer.len > draw_data.total_vtx_count

\* C9: when CreateBuffer or Map fails, render() returns that error; the call
\* draws nothing, runs no RawCallback and leaves the device context as the
\* host had set it; when CreateBuffer fails the call returns at once, with
\* both buffers as they were and without a Map.
C9_FailureStopsTheCall ==
    [][ /\ (result' \in DeviceFailures /\ last_op'.name # "host")
             => /\ pc' \in {"drop", "idle"}
                /\ last_op'.name \in {"return_create_failed", "map_failed",
                                      "return_restored"}
                /\ ops'.draws = 0
                /\ ~gui'.callbacks
                /\ cur_cmd' = NoCmd
                /\ last_op'.calls \cap (StateSetting \cup {"DrawIndexed", "callback"}) = {}
                /\ ctx' = host_ctx'
        /\ (result \in DeviceFailures /\ pc = "drop")
             => (pc' = "idle" /\ result' = result)
        /\ (pc # "idle" /\ result' = E_OUTOFMEMORY)
             => /\ pc \in {"grow_vertex_buffer", "grow_index_buffer"}
                /\ pc' = "idle"
                /\ vertex_buffer' = vertex_buffer
                /\ index_buffer' = index_buffer
                /\ mapped' = mapped
                /\ ops'.maps = 0
                /\ ops'.backups = 0
        /\ (pc # "idle" /\ pc # "drop" /\ result' = DXGI_ERROR_DEVICE_REMOVED)
             => /\ pc \in {"map_vertex_buffer", "map_index_buffer", "write_constants"}
                /\ pc' = "drop"
      ]_vars

\* C9: the index buffer could not be replaced after the vertex buffer was
\* kept; the call has returned and the index buffer is still too small
C9_Witness ==
    /\ pc = "idle"
    /\ result = E_OUTOFMEMORY
    /\ last_op.name = "return_create_failed"
    /\ ops.creates_vb = 0
    /\ vertex_buffer.len >= draw_data.total_vtx_count
    /\ index_buffer.len < draw_data.total_idx_count
    /\ index_buffer.gen = 1

\* C10: every indexed draw has as base vertex the start of its draw list's
\* vertices plus the command's vtx_offset, and as start index the start of
\* its draw list's indices plus the command's idx_offset.
C10_CommandOffsets ==
    last_op.name = "draw"
      => /\ last_draw.base = SumVtx(draw_data.lists, list_i - 1) + cur_cmd.vtx_offset
         /\ last_draw.start = SumIdx(draw_data.lists, list_i - 1) + cur_cmd.idx_offset

\* C11: a render() call that fails on a texture leaves the buffers and the
\* registry as they were, and the call after it runs as any call does: its
\* loop starts with both offsets at 0 and the font view bound and cached, every
\* command whose handle resolves is drawn with its count, the start index and
\* base vertex that the draw data gives, and (no RawCallback having run in
\* this call) the view its handle resolves to; it ends with S_OK when the
\* draw lists are through, and with the texture error only at a handle that
\* does not resolve.
C11_NextFrameAfterFailure ==
    [][ /\ (pc = "commands" /\ result' = DXGI_ERROR_INVALID_CALL)
             => UNCHANGED <<vertex_buffer, index_buffer, textures>>
        /\ (prior_failed' /\ pc = "render_impl")
             => /\ pc' = "commands"
                /\ vertex_offset' = 0
                /\ index_offset' = 0
                /\ last_tex' = FONT_TEX_ID
                /\ ctx'.shader_resource = "font_resource_view"
                /\ ops'.draws = 0
        /\ (prior_failed' /\ pc = "commands" /\ cmd_i' = cmd_i + 1
            /\ cur_cmd'.kind = "Elements")
             => IF Resolves(cur_cmd'.texture_id)
                THEN /\ last_op'.name = "draw"
                     /\ last_draw'.count = cur_cmd'.count
                     /\ last_draw'.start = gui'.idx_before
                     /\ last_draw'.base = SumVtx(draw_data'.lists, list_i' - 1)
                     /\ ~gui'.callbacks
                          => ctx'.shader_resource =
                               IF cur_cmd'.texture_id = FONT_TEX_ID
                               THEN "font_resource_view"
                               ELSE textures'[cur_cmd'.texture_id]
                     /\ ops'.draws = gui'.elems
                     /\ result' = "pending"
                ELSE result' = DXGI_ERROR_INVALID_CALL
        /\ (prior_failed' /\ pc = "commands" /\ pc' = "drop" /\ cmd_i' = cmd_i)
             => /\ result' = S_OK
                /\ ops'.draws = gui'.elems
      ]_vars

\* C11: in the call after one that failed on a texture, the second draw list
\* is being drawn with a texture of the registry
C11_Witness ==
    /\ prior_failed
    /\ last_op.name = "draw"
    /\ list_i = 2
    /\ last_draw.base = 10
    /\ last_draw.start = 3
    /\ ops.draws = 2
    /\ cur_cmd.texture_id \in UserTexIds

\* C12: the error render() returns for a handle that is not in the registry
\* carries that handle.
C12_ErrorCarriesHandle ==
    last_op.name = "texture_missing" => cur_cmd.texture_id \in ErrorHandles(result)

\* the baseline values of setup_render_state for draw data dd, as the
\* pipeline state c holds them
HasBaseline(c, dd) ==
    /\ c.viewports = << [x |-> 0, y |-> 0, w |-> dd.display_size[1],
                        h |-> dd.display_size[2], min_depth |-> 0, max_depth |-> 1] >>
    /\ c.input_layout = "input_layout"
    /\ c.vertex_buffer = <<"vertex_buffer", vertex_buffer.gen>>
    /\ c.vertex_buffer_stride = 20
    /\ c.vertex_buffer_offset = 0
    /\ c.index_buffer = <<"index_buffer", index_buffer.gen>>
    /\ c.index_buffer_format = "R16_UINT"
    /\ c.index_buffer_offset = 0
    /\ c.topology = "TRIANGLELIST"
    /\ c.vs_shader = "vertex_shader"
    /\ c.constant_buffer = "constant_buffer"
    /\ c.ps_shader = "pixel_shader"
    /\ c.sampler = "font_sampler"
    /\ c.gs_shader = Null
    /\ c.hs_shader = Null
    /\ c.ds_shader = Null
    /\ c.cs_shader = Null
    /\ c.blend_state = "blend_state"
    /\ c.blend_factor = <<0, 0, 0, 0>>
    /\ c.sample_mask = "0xFFFFFFFF"
    /\ c.depth_stencil_state = "depth_stencil_state"
    /\ c.stencil_ref = 0
    /\ c.rasterizer_state = "rasterizer_state"

\* C13: the step that processes a ResetRenderState command leaves every item
\* of the baseline at its value for the current draw data, whatever a
\* RawCallback did before; it writes nothing else (slot 0, the scissor
\* rectangle, the buffers, the offsets and the cached texture stay), and the
\* setup applied once more changes nothing.
C13_ResetRestoresBaseline ==
    [][ (pc = "commands" /\ cmd_i' = cmd_i + 1 /\ cur_cmd'.kind = "ResetRenderState")
          => /\ last_op'.name = "reset_render_state"
             /\ HasBaseline(ctx', draw_data')
             /\ SetupRenderState(ctx', draw_data', vertex_buffer', index_buffer') = ctx'
             /\ ctx'.shader_resource = ctx.shader_resource
             /\ ctx'.scissor_rects = ctx.scissor_rects
             /\ ops' = ops
             /\ UNCHANGED <<vertex_buffer, index_buffer, textures, mapped, mvp,
                            vertex_offset, index_offset, last_tex, draw_data, pc, result>>
      ]_vars

\* C13: a ResetRenderState was processed after a RawCallback that had set its
\* own geometry shader, vertex shader, topology, viewports and slot 0
C13_Witness ==
    /\ last_op.name = "reset_render_state"
    /\ gui.callbacks
    /\ ctx.shader_resource = "callback_view"
    /\ ctx.gs_shader = Null
    /\ ctx.topology = "TRIANGLELIST"
    /\ list_i = 2

\* the fraction a is the integer n
FracIs(a, n) == a[2] # 0 /\ a[1] = n * a[2]

\* C14: the matrix written to the constant buffer, its entries taken as exact
\* fractions, sends the top left corner (l, t) of the display to clip (-1, 1)
\* and the bottom right corner (r, b) to clip (1, -1).
C14_ProjectionCorners ==
    mvp # NoMvp
      => LET l == draw_data.display_pos[1]
             t == draw_data.display_pos[2]
             r == l + draw_data.display_size[1]
             b == t + draw_data.display_size[2]
             top_left == ClipPosition(mvp, l, t)
             bottom_right == ClipPosition(mvp, r, b)
         IN  /\ FracIs(top_left[1], -1)
             /\ FracIs(top_left[2], 1)
             /\ FracIs(bottom_right[1], 1)
             /\ FracIs(bottom_right[2], -1)

\* C14: the matrix of a display at (0, 0) of size (800, 600) is written
C14_Witness ==
    /\ mvp # NoMvp
    /\ draw_data.display_pos = <<0, 0>>
    /\ draw_data.display_size = <<800, 600>>
    /\ mvp[1][1] = <<2, 800>>
    /\ mvp[4][2] = <<600, 600>>
    /\ last_op.name = "draw"

\* C15, as the specification states it: the buffers that construction
\* created have zero element capacity.
C15_ZeroCapacityAfterConstruction ==
    /\ vertex_buffer.gen = 0 => vertex_buffer.len = 0
    /\ index_buffer.gen = 0 => index_buffer.len = 0

\* C15: the buffers that construction created hold 5000 vertices and 10000
\* indices; each stays in place through degenerate calls and through calls
\* whose total is within its capacity, and is replaced only by the growth
\* step of the first call with a regular display whose total exceeds its
\* capacity, unless that CreateBuffer fails.
C15_ConstructedCapacityAndLazyGrowth ==
    [][ /\ vertex_buffer.gen = 0 => vertex_buffer.len = VERTEX_BUF_ADD_CAPACITY
        /\ index_buffer.gen = 0 => index_buffer.len = INDEX_BUF_ADD_CAPACITY
        /\ vertex_buffer'.gen = 0 => vertex_buffer'.len = VERTEX_BUF_ADD_CAPACITY
        /\ index_buffer'.gen = 0 => index_buffer'.len = INDEX_BUF_ADD_CAPACITY
        /\ (vertex_buffer.gen = 0 /\ vertex_buffer'.gen # 0)
             => /\ pc = "grow_vertex_buffer"
                /\ ~DegenerateSize(draw_data)
                /\ draw_data.total_vtx_count > VERTEX_BUF_ADD_CAPACITY
                /\ vertex_buffer'.gen = 1
        /\ (index_buffer.gen = 0 /\ index_buffer'.gen # 0)
             => /\ pc = "grow_index_buffer"
                /\ ~DegenerateSize(draw_data)
                /\ draw_data.total_idx_count > INDEX_BUF_ADD_CAPACITY
                /\ index_buffer'.gen = 1
        /\ (pc = "grow_vertex_buffer" /\ vertex_buffer.gen = 0)
             => IF draw_data.total_vtx_count > VERTEX_BUF_ADD_CAPACITY
                THEN vertex_buffer'.gen = 1 \/ result' = E_OUTOFMEMORY
                ELSE vertex_buffer' = vertex_buffer /\ result' = "pending"
        /\ (pc = "grow_index_buffer" /\ index_buffer.gen = 0)
             => IF draw_data.total_idx_count > INDEX_BUF_ADD_CAPACITY
                THEN index_buffer'.gen = 1 \/ result' = E_OUTOFMEMORY
                ELSE index_buffer' = index_buffer /\ result' = "pending"
        /\ (pc = "idle" /\ pc' = "idle")
             => vertex_buffer' = vertex_buffer /\ index_buffer' = index_buffer
      ]_vars

\* C15: a call with 6000 vertices and 15 indices has just replaced the
\* constructed vertex buffer and is about to keep the constructed index buffer
C15_Witness ==
    /\ pc = "grow_index_buffer"
    /\ last_op.name = "create_vertex_buffer"
    /\ vertex_buffer.gen = 1
    /\ draw_data.total_vtx_count = 6000
    /\ index_buffer.gen = 0
    /\ index_buffer.len = INDEX_BUF_ADD_CAPACITY
    /\ draw_data.total_idx_count = 15

\* the steps of the command loop
CommandStepNames == { "draw", "reset_render_state", "raw_callback", "end_list" }

\* C16: in a call with a regular display the steps come in this order: the
\* growth of the vertex buffer and of the index buffer, the state backup, Map
\* of the vertex buffer, Map of the index buffer, the copy of all draw lists
\* with the Unmap of both, Map, write and Unmap of the constant buffer, the
\* baseline state, the commands, the restore.  A draw is issued with none of
\* the three buffers mapped (three Maps and three Unmaps made), the matrix
\* written, the baseline applied before the first command, the backup taken
\* and not yet restored.
C16_OrderOfDeviceOperations ==
    [][ /\ last_op'.name \in {"create_vertex_buffer", "keep_vertex_buffer"}
             => last_op.name = "enter" /\ ops.backups = 0 /\ ops.maps = 0
        /\ last_op'.name \in {"create_index_buffer", "keep_index_buffer"}
             => last_op.name \in {"create_vertex_buffer", "keep_vertex_buffer"}
        /\ last_op'.name = "backup"
             => /\ last_op.name \in {"create_index_buffer", "keep_index_buffer"}
                /\ vertex_buffer.len >= draw_data.total_vtx_count
                /\ index_buffer.len >= draw_data.total_idx_count
                /\ ops.backups = 0 /\ ops'.backups = 1
                /\ ops'.maps = 0
                /\ ctx' = host_ctx'
        /\ last_op'.name = "map_vertex_buffer"
             => /\ last_op.name = "backup"
                /\ ops'.maps = 1
                /\ "vertex_buffer" \in mapped'
        /\ last_op'.name = "map_index_buffer"
             => /\ last_op.name = "map_vertex_buffer"
                /\ ops'.maps = 2
                /\ mapped' = {"vertex_buffer", "index_buffer"}
        /\ last_op'.name = "copy_lists"
             => /\ last_op.name = "map_index_buffer"
                /\ mapped = {"vertex_buffer", "index_buffer"}
                /\ uploaded = NoUpload
                /\ Len(uploaded'.vtx) = Len(draw_data.lists)
                /\ Len(uploaded'.idx) = Len(draw_data.lists)
                /\ "Unmap" \in last_op'.calls
                /\ ops'.unmaps = 2
                /\ mapped' = {}
                /\ mvp' = NoMvp
        /\ last_op'.name = "write_constants"
             => /\ last_op.name = "copy_lists"
                /\ mvp = NoMvp /\ mvp' # NoMvp
                /\ last_op'.calls = {"Map", "Unmap"}
                /\ ops'.maps = 3 /\ ops'.unmaps = 3
                /\ mapped' = {}
                /\ ctx' = host_ctx'
        /\ last_op'.name = "setup_render_state"
             => /\ last_op.name = "write_constants"
                /\ HasBaseline(ctx', draw_data')
                /\ ops'.draws = 0
        /\ last_op'.name = "render_impl"
             => last_op.name = "setup_render_state" /\ ops'.draws = 0
        /\ last_op'.name \in CommandStepNames \cup {"texture_missing", "render_impl_end"}
             => last_op.name \in CommandStepNames \cup {"render_impl"}
        /\ last_op'.name = "draw"
             => /\ mapped' = {}
                /\ ops'.maps = 3 /\ ops'.unmaps = 3
                /\ uploaded' # NoUpload
                /\ mvp' # NoMvp
                /\ ops'.backups = 1 /\ ops'.restores = 0
                /\ state_backup' # NoBackup
        /\ last_op'.name = "return_restored"
             => /\ last_op.name \in {"render_impl_end", "texture_missing", "map_failed"}
                /\ ops.restores = 0 /\ ops'.restores = 1
                /\ ops'.backups = 1
                /\ pc' = "idle"
        /\ (pc # "idle" /\ pc' = "idle" /\ result' = S_OK)
             => last_op.name = "render_impl_end" /\ last_op'.name = "return_restored"
      ]_vars

\* C16: a draw after a RawCallback, in a call that replaced the vertex buffer
\* before its backup and upload
C16_Witness ==
    /\ last_op.name = "draw"
    /\ ops.creates_vb = 1
    /\ ops.draws = 2
    /\ gui.callbacks
    /\ list_i = 2
    /\ mapped = {}

\* C17: once the copy loop has run, draw list k's vertices start at the sum
\* of the vertex counts of the lists before it and its indices at the sum of
\* their index counts; each list starts where the one before it ends and the
\* last ends at the total; every draw of list k in the same call has as base
\* vertex the offset at which list k's vertices were written.
C17_UploadOffsets ==
    (ops.unmaps >= 2 /\ pc # "idle")
      => LET lists == draw_data.lists
             n == Len(lists)
         IN  /\ Len(uploaded.vtx) = n
             /\ Len(uploaded.idx) = n
             /\ \A k \in 1..n :
                  /\ uploaded.vtx[k] = SumVtx(lists, k - 1)
                  /\ uploaded.idx[k] = SumIdx(lists, k - 1)
                  /\ uploaded.vtx[k] + lists[k].vtx
                       = (IF k < n THEN uploaded.vtx[k + 1] ELSE draw_data.total_vtx_count)
                  /\ uploaded.idx[k] + lists[k].idx
                       = (IF k < n THEN uploaded.idx[k + 1] ELSE draw_data.total_idx_count)
             /\ last_op.name = "draw"
                  => /\ last_draw.list \in 1..n
                     /\ last_draw.base = uploaded.vtx[last_draw.list]

\* C17: a draw of the third draw list, whose vertices were written at 30 and
\* whose indices at 45
C17_Witness ==
    /\ last_op.name = "draw"
    /\ last_draw.list = 3
    /\ uploaded.vtx = <<0, 10, 30>>
    /\ uploaded.idx = <<0, 15, 45>>
    /\ last_draw.base = 30

\* C18: every Elements command that the loop reaches and whose texture is
\* found is one step that sets one scissor rectangle, computed from that
\* command's clip_rect, and then draws that command's count, in the draw list
\* the loop is in; so the draws made are the Elements commands yielded so far,
\* one to one and in their order.  A RawCallback command is one step that runs
\* the callback once and draws nothing, a ResetRenderState command draws
\* nothing, and a call that returns success has drawn every Elements command.
C18_OneDrawPerElements ==
    [][ /\ (pc = "commands" /\ cmd_i' = cmd_i + 1 /\ cur_cmd'.kind = "Elements"
            /\ result' = "pending")
             => /\ last_op'.name = "draw"
                /\ {"RSSetScissorRects", "DrawIndexed"} \subseteq last_op'.calls
                /\ ctx'.scissor_rects =
                     << << (cur_cmd'.clip_rect[1] - draw_data.display_pos[1])
                              * draw_data.framebuffer_scale[1],
                           (cur_cmd'.clip_rect[2] - draw_data.display_pos[2])
                              * draw_data.framebuffer_scale[2],
                           (cur_cmd'.clip_rect[3] - draw_data.display_pos[1])
                              * draw_data.framebuffer_scale[1],
                           (cur_cmd'.clip_rect[4] - draw_data.display_pos[2])
                              * draw_data.framebuffer_scale[2] >> >>
                /\ last_draw'.count = cur_cmd'.count
                /\ last_draw'.list = list_i
                /\ ops'.draws = ops.draws + 1
                /\ ops'.draws = gui'.elems
        /\ (pc = "commands" /\ cmd_i' = cmd_i + 1 /\ cur_cmd'.kind = "RawCallback")
             => /\ last_op' = [name |-> "raw_callback", calls |-> {"callback"}]
                /\ ops'.draws = ops.draws
                /\ ops'.draws = gui'.elems
                /\ last_draw' = last_draw
        /\ (pc = "commands" /\ cmd_i' = cmd_i + 1 /\ cur_cmd'.kind = "ResetRenderState")
             => /\ "DrawIndexed" \notin last_op'.calls
                /\ "callback" \notin last_op'.calls
                /\ ops'.draws = ops.draws
        /\ ops'.draws # ops.draws
             => \/ last_op'.name = "draw"
                \/ (pc = "idle" /\ ops'.draws = 0)
        /\ "callback" \in last_op'.calls => last_op'.name = "raw_callback"
        /\ (pc = "commands" /\ result' = S_OK)
             => /\ list_i > Len(draw_data.lists)
                /\ ops'.draws = gui'.elems
                /\ ops' = ops
      ]_vars

\* C18: a call that ran a RawCallback and drew three Elements commands is
\* about to return success
C18_Witness ==
    /\ last_op.name = "render_impl_end"
    /\ result = S_OK
    /\ gui.callbacks
    /\ gui.elems = 3
    /\ ops.draws = 3
    /\ list_i = 4

\* C19: at every indexed draw of an Elements command the view in pixel slot 0
\* is the one the command's texture_id resolves to: the font view for the
\* sentinel, the entry of the registry otherwise.
C19_DrawsWithItsTexture ==
    last_op.name = "draw"
      => ctx.shader_resource =
           IF cur_cmd.texture_id = FONT_TEX_ID
           THEN "font_resource_view"
           ELSE textures[cur_cmd.texture_id]

\* C20: whenever render() has returned, with success or with an error, none
\* of the vertex, index and constant buffers is mapped.
C20_NothingMappedAfterReturn ==
    pc = "idle" => mapped = {}

\* C21: the index range [start, start + count) of every draw of draw list k
\* lies inside the region into which list k's indices were uploaded: from the
\* sum of the index counts of the lists before k, for list k's index count.
C21_DrawInsideItsIndexRegion ==
    last_op.name = "draw"
      => /\ last_draw.start >= SumIdx(draw_data.lists, last_draw.list - 1)
         /\ last_draw.start + last_draw.count <= SumIdx(draw_data.lists, last_draw.list)

====
